---- MODULE Spec2Model ----
(***************************************************************************)
(* Model of src/server.js: a Socket.IO relay.  Realtime clients connect,   *)
(* are joined to the room "order_updates", may ping, and disconnect; the   *)
(* backend POSTs events to ten /broadcast/* routes, which validate the     *)
(* body and emit an event to the room; GET /health and GET / report the    *)
(* counter connectedClients.                                               *)
(*                                                                         *)
(* Node runs every handler to completion on one thread, so each handler is *)
(* one action.  JSON values are modelled by tags: "null", "0", "''" and    *)
(* "false" are the falsy JSON values, "v1" and "v2" two truthy ones; a key *)
(* that is absent from a body reads as "undefined".                        *)
(***************************************************************************)
EXTENDS Integers, Sequences, FiniteSets, TLC

\* ---- bounds -------------------------------------------------------------
MaxConns == 3
MaxBroadcasts == 2
MaxPings == 1

Conns == 1..MaxConns

\* ---- values -------------------------------------------------------------
RoomNames == {"order_updates", "other"}

Falsy == {"undefined", "null", "0", "''", "false"}

Truthy(v) == v \notin Falsy

\* the values a JSON body can hold under each key
FalsyOf(f) ==
  CASE f \in {"order", "image", "comment"} -> "null"
    [] f \in {"order_id", "image_id", "comment_id"} -> "0"
    [] f \in {"old_status", "new_status"} -> "''"
    [] f = "assigned_users" -> "false"
    [] OTHER -> "null"

JsonValues(f) == IF f = "note" THEN {"v1"} ELSE {FalsyOf(f), "v1", "v2"}

\* the timestamps a client may put in a ping, and the readings of Date.now()
Timestamps == {0, 1234}
Clock == {1700, 1701}

VARIABLES
  connectedClients,  \* let connectedClients (server.js:47)
  status,            \* per socket: "connecting", "connected", "disconnected"
  rooms,             \* the adapter's rooms: room name -> set of sockets
  outbox,            \* per socket: the messages emitted to it, in order
  res,               \* the last HTTP response
  lastOp,            \* the event handled last, with its input
  nEmits,            \* number of io.to(...).emit calls so far
  nAccepted,         \* number of 200 responses of the ingestion routes
  nPings,            \* number of pings handled
  phase,             \* the process: "running", "closing" (after SIGINT), "exited"
  delivered,         \* per socket: how many messages of its outbox have reached the client
  emitLog            \* the events given to io.to(...).emit, in the order of the calls

vars == <<connectedClients, status, rooms, outbox, res, lastOp, nEmits, nAccepted, nPings,
          phase, delivered, emitLog>>

Live == {c \in Conns : status[c] = "connected"}

Init ==
  /\ connectedClients = 0
  /\ status = [c \in Conns |-> "connecting"]
  /\ rooms = [r \in RoomNames |-> {}]
  /\ outbox = [c \in Conns |-> <<>>]
  /\ res = [status |-> 0, body |-> [none |-> "none"]]
  /\ lastOp = [op |-> "listen"]
  /\ nEmits = 0
  /\ nAccepted = 0
  /\ nPings = 0
  /\ phase = "running"
  /\ delivered = [c \in Conns |-> 0]
  /\ emitLog = <<>>

\* ---- Socket.IO primitives, as the handlers use them ---------------------
\* mutant: the join is skipped
Join_Skip(rs, c, room) == rs

\* socket.join(room)
Join(rs, c, room) == [rs EXCEPT ![room] = @ \cup {c}]

\* mutant: the message goes to every socket that has connected (io.emit)
SocketEmit_ToAll(ob, c, event, data) ==
  [d \in Conns |-> IF d = c \/ ob[d] # <<>>
                     THEN Append(ob[d], [event |-> event, data |-> data])
                     ELSE ob[d]]

\* socket.emit(event, data): to this socket only
SocketEmit(ob, c, event, data) ==
  [ob EXCEPT ![c] = Append(@, [event |-> event, data |-> data])]

\* mutant: the event is put in front of what the socket was sent before
RoomEmit_Prepend(ob, rs, room, event, data) ==
  [c \in Conns |-> IF c \in rs[room]
                     THEN <<[event |-> event, data |-> data]>> \o ob[c]
                     ELSE ob[c]]

\* mutant: the event goes to every socket that ever connected
RoomEmit_Stale(ob, rs, room, event, data) ==
  [c \in Conns |-> IF ob[c] # <<>>
                     THEN Append(ob[c], [event |-> event, data |-> data])
                     ELSE ob[c]]

\* io.to(room).emit(event, data): to every socket in the room
RoomEmit(ob, rs, room, event, data) ==
  [c \in Conns |-> IF c \in rs[room]
                     THEN Append(ob[c], [event |-> event, data |-> data])
                     ELSE ob[c]]

\* mutant: the handler counts the client and leaves the join and the
\* acknowledgment to a later turn
Connection_CountFirst(c) ==
  /\ phase = "running"
  /\ status[c] = "connecting"
  /\ status' = [status EXCEPT ![c] = "connected"]
  /\ connectedClients' = connectedClients + 1
  /\ lastOp' = [op |-> "connection", c |-> c]
  /\ UNCHANGED <<rooms, outbox, res, nEmits, nAccepted, nPings, phase, delivered, emitLog>>

\* ---- io.on('connection') ------------------------------------------------
Connection(c) ==
  /\ phase = "running"
  /\ status[c] = "connecting"
  /\ status' = [status EXCEPT ![c] = "connected"]
  /\ connectedClients' = connectedClients + 1
  /\ rooms' = Join(rooms, c, "order_updates")
  /\ outbox' = SocketEmit(outbox, c, "connection_established",
                          [message |-> "Connected to order updates", clientId |-> c])
  /\ lastOp' = [op |-> "connection", c |-> c]
  /\ UNCHANGED <<res, nEmits, nAccepted, nPings, phase, delivered, emitLog>>

\* socket.on('ping')
PongTimestamp(data, now) ==
  IF "timestamp" \in DOMAIN data /\ data.timestamp # 0 THEN data.timestamp ELSE now

\* mutant: a heartbeat is counted as a client
Ping_Counts(c, data, now) ==
  /\ phase # "exited"
  /\ status[c] = "connected"
  /\ nPings < MaxPings
  /\ outbox' = SocketEmit(outbox, c, "pong", [timestamp |-> PongTimestamp(data, now)])
  /\ nPings' = nPings + 1
  /\ connectedClients' = connectedClients + 1
  /\ lastOp' = [op |-> "ping", c |-> c, data |-> data, now |-> now]
  /\ UNCHANGED <<status, rooms, res, nEmits, nAccepted, phase, delivered, emitLog>>

Ping(c, data, now) ==
  /\ phase # "exited"
  /\ status[c] = "connected"
  /\ nPings < MaxPings
  /\ outbox' = SocketEmit(outbox, c, "pong", [timestamp |-> PongTimestamp(data, now)])
  /\ nPings' = nPings + 1
  /\ lastOp' = [op |-> "ping", c |-> c, data |-> data, now |-> now]
  /\ UNCHANGED <<connectedClients, status, rooms, res, nEmits, nAccepted, phase, delivered, emitLog>>

\* mutant: the error handler treats the error as the end of the connection
SocketError_Closes(c) ==
  /\ phase # "exited"
  /\ status[c] = "connected"
  /\ status' = [status EXCEPT ![c] = "disconnected"]
  /\ rooms' = [r \in RoomNames |-> rooms[r] \ {c}]
  /\ connectedClients' = connectedClients - 1
  /\ lastOp' = [op |-> "error", c |-> c]
  /\ UNCHANGED <<outbox, res, nEmits, nAccepted, nPings, phase, delivered, emitLog>>

\* socket.on('error'): the error is logged
SocketError(c) ==
  /\ phase # "exited"
  /\ status[c] = "connected"
  /\ lastOp' = [op |-> "error", c |-> c]
  /\ UNCHANGED <<connectedClients, status, rooms, outbox, res, nEmits, nAccepted, nPings,
                 phase, delivered, emitLog>>

\* mutant: the socket stays in its rooms when it disconnects
Disconnect_StayInRoom(c) ==
  /\ phase # "exited"
  /\ status[c] = "connected"
  /\ status' = [status EXCEPT ![c] = "disconnected"]
  /\ connectedClients' = connectedClients - 1
  /\ lastOp' = [op |-> "disconnect", c |-> c]
  /\ UNCHANGED <<rooms, outbox, res, nEmits, nAccepted, nPings, phase, delivered, emitLog>>

\* mutant: the handler does not decrement the counter
Disconnect_NoDecrement(c) ==
  /\ phase # "exited"
  /\ status[c] = "connected"
  /\ status' = [status EXCEPT ![c] = "disconnected"]
  /\ rooms' = [r \in RoomNames |-> rooms[r] \ {c}]
  /\ lastOp' = [op |-> "disconnect", c |-> c]
  /\ UNCHANGED <<connectedClients, outbox, res, nEmits, nAccepted, nPings, phase, delivered, emitLog>>

\* socket.on('disconnect'): Socket.IO removes the socket from its rooms and
\* then runs the handler
Disconnect(c) ==
  /\ phase # "exited"
  /\ status[c] = "connected"
  /\ status' = [status EXCEPT ![c] = "disconnected"]
  /\ rooms' = [r \in RoomNames |-> rooms[r] \ {c}]
  /\ connectedClients' = connectedClients - 1
  /\ lastOp' = [op |-> "disconnect", c |-> c]
  /\ UNCHANGED <<outbox, res, nEmits, nAccepted, nPings, phase, delivered, emitLog>>

\* mutant: the 'disconnect' handler runs again for a socket that is gone
DisconnectAgain_Rerun(c) ==
  /\ phase # "exited"
  /\ status[c] = "disconnected"
  /\ connectedClients' = connectedClients - 1
  /\ lastOp' = [op |-> "disconnect_again", c |-> c]
  /\ UNCHANGED <<status, rooms, outbox, res, nEmits, nAccepted, nPings, phase, delivered, emitLog>>

\* a close that arrives for a socket that is already disconnected: Socket.IO
\* drops it and the 'disconnect' handler does not run again
DisconnectAgain(c) ==
  /\ phase # "exited"
  /\ status[c] = "disconnected"
  /\ lastOp' = [op |-> "disconnect_again", c |-> c]
  /\ UNCHANGED <<connectedClients, status, rooms, outbox, res, nEmits, nAccepted, nPings, phase, delivered, emitLog>>

\* ---- HTTP ingestion routes ----------------------------------------------
\* const { f } = req.body: a key the body lacks reads as undefined
Field(body, f) == IF f \in DOMAIN body THEN body[f] ELSE "undefined"

\* return res.status(400).json({ error })
Respond400(error) ==
  /\ res' = [status |-> 400, body |-> [error |-> error]]
  /\ UNCHANGED <<outbox, nEmits, nAccepted, emitLog>>

\* io.to('order_updates').emit(event, data)
Broadcast(event, data) ==
  /\ outbox' = RoomEmit(outbox, rooms, "order_updates", event, data)
  /\ nEmits' = nEmits + 1
  /\ emitLog' = Append(emitLog, [event |-> event, data |-> data])

\* res.json({ success: true, message, clients: connectedClients })
Respond200(message) ==
  /\ res' = [status |-> 200,
             body |-> [success |-> TRUE, message |-> message, clients |-> connectedClients]]
  /\ nAccepted' = nAccepted + 1
\* mutant: a request equal to the one handled last is answered but not
\* broadcast again
OrderCreated_Dedup(body) ==
  LET
    order == Field(body, "order")
  IN
    IF ~Truthy(order)
      THEN Respond400("Order data is required")
      ELSE /\ IF lastOp = [op |-> "post", route |-> "/broadcast/order-created", body |-> body]
                THEN UNCHANGED <<outbox, nEmits, emitLog>>
                ELSE Broadcast("order_created", [type |-> "order_created", order |-> order])
           /\ Respond200("Order created event broadcasted")

\* app.post('/broadcast/order-created')
OrderCreated(body) ==
  LET
    order == Field(body, "order")
  IN
    IF ~Truthy(order)
      THEN Respond400("Order data is required")
      ELSE /\ Broadcast("order_created", [type |-> "order_created", order |-> order])
           /\ Respond200("Order created event broadcasted")
\* app.post('/broadcast/order-updated')
OrderUpdated(body) ==
  LET
    order == Field(body, "order")
  IN
    IF ~Truthy(order)
      THEN Respond400("Order data is required")
      ELSE /\ Broadcast("order_updated", [type |-> "order_updated", order |-> order])
           /\ Respond200("Order updated event broadcasted")
\* app.post('/broadcast/order-deleted')
OrderDeleted(body) ==
  LET
    order_id == Field(body, "order_id")
  IN
    IF ~Truthy(order_id)
      THEN Respond400("Order ID is required")
      ELSE /\ Broadcast("order_deleted", [type |-> "order_deleted", order_id |-> order_id])
           /\ Respond200("Order deleted event broadcasted")
\* mutant: the check of `order` is forgotten
OrderStatusChanged_NoOrderCheck(body) ==
  LET
    order_id == Field(body, "order_id")
    old_status == Field(body, "old_status")
    new_status == Field(body, "new_status")
    order == Field(body, "order")
  IN
    IF ~Truthy(order_id) \/ ~Truthy(old_status) \/ ~Truthy(new_status)
      THEN Respond400("Missing required fields")
      ELSE /\ Broadcast("order_status_changed",
                        [type |-> "order_status_changed", order_id |-> order_id,
                         old_status |-> old_status, new_status |-> new_status, order |-> order])
           /\ Respond200("Order status changed event broadcasted")

\* mutant: old_status and new_status are swapped in the event
OrderStatusChanged_Swapped(body) ==
  LET
    order_id == Field(body, "order_id")
    old_status == Field(body, "old_status")
    new_status == Field(body, "new_status")
    order == Field(body, "order")
  IN
    IF ~Truthy(order_id) \/ ~Truthy(old_status) \/ ~Truthy(new_status) \/ ~Truthy(order)
      THEN Respond400("Missing required fields")
      ELSE /\ Broadcast("order_status_changed",
                        [type |-> "order_status_changed", order_id |-> order_id,
                         old_status |-> new_status, new_status |-> old_status, order |-> order])
           /\ Respond200("Order status changed event broadcasted")

\* app.post('/broadcast/order-status-changed')
OrderStatusChanged(body) ==
  LET
    order_id == Field(body, "order_id")
    old_status == Field(body, "old_status")
    new_status == Field(body, "new_status")
    order == Field(body, "order")
  IN
    IF ~Truthy(order_id) \/ ~Truthy(old_status) \/ ~Truthy(new_status) \/ ~Truthy(order)
      THEN Respond400("Missing required fields")
      ELSE /\ Broadcast("order_status_changed", [type |-> "order_status_changed", order_id |-> order_id, old_status |-> old_status, new_status |-> new_status, order |-> order])
           /\ Respond200("Order status changed event broadcasted")
\* app.post('/broadcast/order-image-uploaded')
OrderImageUploaded(body) ==
  LET
    order_id == Field(body, "order_id")
    image == Field(body, "image")
    order == Field(body, "order")
  IN
    IF ~Truthy(order_id) \/ ~Truthy(image) \/ ~Truthy(order)
      THEN Respond400("Missing required fields")
      ELSE /\ Broadcast("order_image_uploaded", [type |-> "order_image_uploaded", order_id |-> order_id, image |-> image, order |-> order])
           /\ Respond200("Order image uploaded event broadcasted")
\* app.post('/broadcast/order-image-deleted')
OrderImageDeleted(body) ==
  LET
    order_id == Field(body, "order_id")
    image_id == Field(body, "image_id")
    order == Field(body, "order")
  IN
    IF ~Truthy(order_id) \/ ~Truthy(image_id) \/ ~Truthy(order)
      THEN Respond400("Missing required fields")
      ELSE /\ Broadcast("order_image_deleted", [type |-> "order_image_deleted", order_id |-> order_id, image_id |-> image_id, order |-> order])
           /\ Respond200("Order image deleted event broadcasted")
\* app.post('/broadcast/order-assigned')
OrderAssigned(body) ==
  LET
    order_id == Field(body, "order_id")
    assigned_users == Field(body, "assigned_users")
    order == Field(body, "order")
  IN
    IF ~Truthy(order_id) \/ ~Truthy(assigned_users) \/ ~Truthy(order)
      THEN Respond400("Missing required fields")
      ELSE /\ Broadcast("order_assigned", [type |-> "order_assigned", order_id |-> order_id, assigned_users |-> assigned_users, order |-> order])
           /\ Respond200("Order assigned event broadcasted")
\* app.post('/broadcast/comment-created')
CommentCreated(body) ==
  LET
    order_id == Field(body, "order_id")
    comment == Field(body, "comment")
  IN
    IF ~Truthy(order_id) \/ ~Truthy(comment)
      THEN Respond400("Missing required fields")
      ELSE /\ Broadcast("comment_created", [type |-> "comment_created", order_id |-> order_id, comment |-> comment])
           /\ Respond200("Comment created event broadcasted")
\* app.post('/broadcast/comment-updated')
CommentUpdated(body) ==
  LET
    order_id == Field(body, "order_id")
    comment == Field(body, "comment")
  IN
    IF ~Truthy(order_id) \/ ~Truthy(comment)
      THEN Respond400("Missing required fields")
      ELSE /\ Broadcast("comment_updated", [type |-> "comment_updated", order_id |-> order_id, comment |-> comment])
           /\ Respond200("Comment updated event broadcasted")
\* app.post('/broadcast/comment-deleted')
CommentDeleted(body) ==
  LET
    order_id == Field(body, "order_id")
    comment_id == Field(body, "comment_id")
  IN
    IF ~Truthy(order_id) \/ ~Truthy(comment_id)
      THEN Respond400("Missing required fields")
      ELSE /\ Broadcast("comment_deleted", [type |-> "comment_deleted", order_id |-> order_id, comment_id |-> comment_id])
           /\ Respond200("Comment deleted event broadcasted")
\* the keys a request to a route may carry: the keys the handler reads and
\* one key no handler reads
RouteKeys(route) ==
  CASE route = "/broadcast/order-created" -> {"order", "note"}
    [] route = "/broadcast/order-updated" -> {"order", "note"}
    [] route = "/broadcast/order-deleted" -> {"order_id", "note"}
    [] route = "/broadcast/order-status-changed" -> {"order_id", "old_status", "new_status", "order", "note"}
    [] route = "/broadcast/order-image-uploaded" -> {"order_id", "image", "order", "note"}
    [] route = "/broadcast/order-image-deleted" -> {"order_id", "image_id", "order", "note"}
    [] route = "/broadcast/order-assigned" -> {"order_id", "assigned_users", "order", "note"}
    [] route = "/broadcast/comment-created" -> {"order_id", "comment", "note"}
    [] route = "/broadcast/comment-updated" -> {"order_id", "comment", "note"}
    [] route = "/broadcast/comment-deleted" -> {"order_id", "comment_id", "note"}

\* the JSON bodies over a set of keys: any subset of the keys, each with a value
BodiesOver(keys) ==
  UNION {{b \in [D -> {"null", "0", "''", "false", "v1", "v2"}] :
            \A f \in D : b[f] \in JsonValues(f)} : D \in SUBSET keys}

Bodies(route) == BodiesOver(RouteKeys(route))

\* Express routes the request to the handler registered for its path
Route(route, body) ==
  CASE route = "/broadcast/order-created" -> OrderCreated(body)
    [] route = "/broadcast/order-updated" -> OrderUpdated(body)
    [] route = "/broadcast/order-deleted" -> OrderDeleted(body)
    [] route = "/broadcast/order-status-changed" -> OrderStatusChanged(body)
    [] route = "/broadcast/order-image-uploaded" -> OrderImageUploaded(body)
    [] route = "/broadcast/order-image-deleted" -> OrderImageDeleted(body)
    [] route = "/broadcast/order-assigned" -> OrderAssigned(body)
    [] route = "/broadcast/comment-created" -> CommentCreated(body)
    [] route = "/broadcast/comment-updated" -> CommentUpdated(body)
    [] route = "/broadcast/comment-deleted" -> CommentDeleted(body)

\* one POST, handled by the route's handler
Post(route, body) ==
  /\ phase # "exited"
  /\ nEmits < MaxBroadcasts
  /\ Route(route, body)
  /\ lastOp' = [op |-> "post", route |-> route, body |-> body]
  /\ UNCHANGED <<connectedClients, status, rooms, nPings, phase, delivered>>

\* the readings of process.uptime()
Uptimes == {5}

\* mutant: the response reports the number of sockets that ever connected
Health_Total(uptime) ==
  /\ phase # "exited"
  /\ res' = [status |-> 200,
             body |-> [status |-> "ok",
                       connectedClients |-> Cardinality({c \in Conns : status[c] # "connecting"}),
                       uptime |-> uptime]]
  /\ lastOp' = [op |-> "get", route |-> "/health"]
  /\ UNCHANGED <<connectedClients, status, rooms, outbox, nEmits, nAccepted, nPings, phase, delivered, emitLog>>

\* app.get('/health')
Health(uptime) ==
  /\ phase # "exited"
  /\ res' = [status |-> 200,
             body |-> [status |-> "ok", connectedClients |-> connectedClients, uptime |-> uptime]]
  /\ lastOp' = [op |-> "get", route |-> "/health"]
  /\ UNCHANGED <<connectedClients, status, rooms, outbox, nEmits, nAccepted, nPings, phase, delivered, emitLog>>

\* app.get('/')
Root ==
  /\ phase # "exited"
  /\ res' = [status |-> 200,
             body |-> [message |-> "Socket.IO Server for Seefood Orders",
                       version |-> "1.0.0", connectedClients |-> connectedClients]]
  /\ lastOp' = [op |-> "get", route |-> "/"]
  /\ UNCHANGED <<connectedClients, status, rooms, outbox, nEmits, nAccepted, nPings, phase, delivered, emitLog>>

PingData == {[none |-> "none"]} \cup {[timestamp |-> t] : t \in Timestamps}

\* the bodies the backend sends in the lifecycle specification, which posts to
\* the two order routes only: the complete body of the route, and the empty body
PlainBodies(route) ==
  {b \in Bodies(route) : DOMAIN b \in {{}, RouteKeys(route) \ {"note"}}
                         /\ \A f \in DOMAIN b : b[f] = "v1"}

\* ---- lifecycle specification: connections and broadcasts ----------------
Next ==
  \/ \E c \in Conns : Connection(c)
  \/ \E c \in Conns : Disconnect(c)
  \/ \E c \in Conns : DisconnectAgain(c)
  \/ \E body \in PlainBodies("/broadcast/order-created") : Post("/broadcast/order-created", body)
  \/ \E body \in PlainBodies("/broadcast/order-updated") : Post("/broadcast/order-updated", body)

Spec == Init /\ [][Next]_vars

\* ---- ingestion specification: every body of every route, met by every ----
\* configuration of two connections; a run ends with its first accepted request
IngestConns == {1, 2}

NextIngest ==
  \/ \E c \in IngestConns : Connection(c)
  \/ \E c \in IngestConns : Disconnect(c)
  \/ \E body \in Bodies("/broadcast/order-created") : nAccepted = 0 /\ Post("/broadcast/order-created", body)
  \/ \E body \in Bodies("/broadcast/order-updated") : nAccepted = 0 /\ Post("/broadcast/order-updated", body)
  \/ \E body \in Bodies("/broadcast/order-deleted") : nAccepted = 0 /\ Post("/broadcast/order-deleted", body)
  \/ \E body \in Bodies("/broadcast/order-status-changed") : nAccepted = 0 /\ Post("/broadcast/order-status-changed", body)
  \/ \E body \in Bodies("/broadcast/order-image-uploaded") : nAccepted = 0 /\ Post("/broadcast/order-image-uploaded", body)
  \/ \E body \in Bodies("/broadcast/order-image-deleted") : nAccepted = 0 /\ Post("/broadcast/order-image-deleted", body)
  \/ \E body \in Bodies("/broadcast/order-assigned") : nAccepted = 0 /\ Post("/broadcast/order-assigned", body)
  \/ \E body \in Bodies("/broadcast/comment-created") : nAccepted = 0 /\ Post("/broadcast/comment-created", body)
  \/ \E body \in Bodies("/broadcast/comment-updated") : nAccepted = 0 /\ Post("/broadcast/comment-updated", body)
  \/ \E body \in Bodies("/broadcast/comment-deleted") : nAccepted = 0 /\ Post("/broadcast/comment-deleted", body)

SpecIngest == Init /\ [][NextIngest]_vars

\* ---- heartbeat specification: pings of every shape and transport errors --
\* on every connection
NextHeartbeat ==
  \/ \E c \in Conns : Connection(c)
  \/ \E c \in Conns, data \in PingData, now \in Clock : Ping(c, data, now)
  \/ \E c \in Conns : SocketError(c)
  \/ \E c \in Conns : Disconnect(c)

SpecHeartbeat == Init /\ [][NextHeartbeat]_vars

\* ---- status specification: the counts the responses report ---------------
NextStatus ==
  \/ \E c \in Conns : Connection(c)
  \/ \E c \in Conns : Disconnect(c)
  \/ \E body \in PlainBodies("/broadcast/order-created") : Post("/broadcast/order-created", body)
  \/ \E uptime \in Uptimes : Health(uptime)
  \/ Root

SpecStatus == Init /\ [][NextStatus]_vars

\* ---- shutdown: process.on('SIGINT') -------------------------------------
\* the handler calls io.close(callback): the server stops admitting connections
Sigint ==
  /\ phase = "running"
  /\ phase' = "closing"
  /\ lastOp' = [op |-> "SIGINT"]
  /\ UNCHANGED <<connectedClients, status, rooms, outbox, res, nEmits, nAccepted, nPings,
                 delivered, emitLog>>

\* io.close closes the live sockets; each runs its 'disconnect' handler
CloseSockets ==
  /\ phase = "closing"
  /\ \E c \in Conns : Disconnect(c)

\* mutant: process.exit(0) is called without waiting for the close callback
Exit_Early ==
  /\ phase = "closing"
  /\ phase' = "exited"
  /\ lastOp' = [op |-> "exit"]
  /\ UNCHANGED <<connectedClients, status, rooms, outbox, res, nEmits, nAccepted, nPings,
                 delivered, emitLog>>

\* the callback of io.close, run when all connections are closed: process.exit(0)
Exit ==
  /\ phase = "closing"
  /\ Live = {}
  /\ phase' = "exited"
  /\ lastOp' = [op |-> "exit"]
  /\ UNCHANGED <<connectedClients, status, rooms, outbox, res, nEmits, nAccepted, nPings,
                 delivered, emitLog>>

\* ---- shutdown specification: connections come and go, then SIGINT --------
NextShutdown ==
  \/ \E c \in Conns : Connection(c)
  \/ \E c \in Conns : Disconnect(c)
  \/ \E uptime \in Uptimes : Health(uptime)
  \/ Sigint
  \/ CloseSockets
  \/ Exit

\* io.close goes on closing sockets while one is live, and its callback runs
\* once none is
SpecShutdown ==
  Init /\ [][NextShutdown]_vars /\ WF_vars(CloseSockets) /\ WF_vars(Exit)

\* ---- delivery: the transport hands the emitted messages to the client ----
\* mutant: a message is handed over although the socket has disconnected
Deliver_AfterClose(c) ==
  /\ phase # "exited"
  /\ status[c] # "connecting"
  /\ delivered[c] < Len(outbox[c])
  /\ delivered' = [delivered EXCEPT ![c] = @ + 1]
  /\ lastOp' = [op |-> "deliver", c |-> c]
  /\ UNCHANGED <<connectedClients, status, rooms, outbox, res, nEmits, nAccepted, nPings,
                 phase, emitLog>>

\* the next message of the outbox reaches the client, while it is connected;
\* what is still undelivered when the socket disconnects is dropped
Deliver(c) ==
  /\ phase # "exited"
  /\ status[c] = "connected"
  /\ delivered[c] < Len(outbox[c])
  /\ delivered' = [delivered EXCEPT ![c] = @ + 1]
  /\ lastOp' = [op |-> "deliver", c |-> c]
  /\ UNCHANGED <<connectedClients, status, rooms, outbox, res, nEmits, nAccepted, nPings,
                 phase, emitLog>>

\* ---- delivery specification: broadcasts in flight while two clients come --
\* and go
DeliveryConns == {1, 2}

NextDelivery ==
  \/ \E c \in DeliveryConns : Connection(c)
  \/ \E c \in DeliveryConns : Disconnect(c)
  \/ \E body \in PlainBodies("/broadcast/order-created") : Post("/broadcast/order-created", body)
  \/ \E c \in DeliveryConns : Deliver(c)

\* a connection that stays up gets its messages
SpecDelivery ==
  Init /\ [][NextDelivery]_vars /\ \A c \in DeliveryConns : WF_vars(Deliver(c))

\* ---- frame specification: every kind of event, on two connections --------
FrameConns == {1, 2}

NextFrame ==
  \/ \E c \in FrameConns : Connection(c)
  \/ \E c \in FrameConns, data \in PingData, now \in Clock : Ping(c, data, now)
  \/ \E c \in FrameConns : Disconnect(c)
  \/ \E body \in PlainBodies("/broadcast/order-created") : Post("/broadcast/order-created", body)
  \/ \E uptime \in Uptimes : Health(uptime)
  \/ Root

SpecFrame == Init /\ [][NextFrame]_vars

\* ==== properties ==========================================================

\* C1: after any sequence of connect and disconnect events connectedClients
\* equals the number of connections admitted and not yet disconnected, and it
\* is never negative.
ConnectionCountInv ==
  /\ connectedClients = Cardinality(Live)
  /\ connectedClients >= 0

ConnectionCountWitness ==
  /\ Cardinality(Live) = 2
  /\ \E d \in Conns : status[d] = "disconnected"
  /\ connectedClients = 2

\* C2: every connection, from the handling of its connect event until it
\* disconnects, is a member of "order_updates" and of no other room, without
\* any join request of the client.
RoomMembershipInv ==
  \A c \in Conns :
    status[c] = "connected" =>
      \A r \in RoomNames : (c \in rooms[r]) <=> (r = "order_updates")

RoomMembershipWitness ==
  /\ lastOp.op = "connection"
  /\ status[lastOp.c] = "connected"
  /\ lastOp.c \in rooms["order_updates"]
  /\ \E d \in Conns : status[d] = "disconnected"

\* a message is a broadcast event if its data carries the type tag
IsBroadcastMsg(m) == "type" \in DOMAIN m.data

\* C3: a broadcast issued by an ingestion route is delivered to every
\* connection that is a member of "order_updates" at the time of the call, the
\* same event to each, and to no other connection: not to one that has
\* disconnected or has not connected yet, and no later step hands it to one.
BroadcastDelivery ==
  [][ /\ nEmits' # nEmits =>
           /\ \A c \in Conns :
                IF c \in rooms["order_updates"]
                  THEN /\ Len(outbox'[c]) = Len(outbox[c]) + 1
                       /\ SubSeq(outbox'[c], 1, Len(outbox[c])) = outbox[c]
                       /\ IsBroadcastMsg(outbox'[c][Len(outbox'[c])])
                  ELSE outbox'[c] = outbox[c]
           /\ \A c, d \in rooms["order_updates"] :
                outbox'[c][Len(outbox'[c])] = outbox'[d][Len(outbox'[d])]
           /\ \A c \in Conns : status[c] # "connected" => outbox'[c] = outbox[c]
      /\ nEmits' = nEmits =>
           \A c \in Conns :
             \/ outbox'[c] = outbox[c]
             \/ /\ Len(outbox'[c]) = Len(outbox[c]) + 1
                /\ SubSeq(outbox'[c], 1, Len(outbox[c])) = outbox[c]
                /\ ~IsBroadcastMsg(outbox'[c][Len(outbox'[c])])
    ]_vars

HasBroadcast(c) == \E i \in 1..Len(outbox[c]) : IsBroadcastMsg(outbox[c][i])

BroadcastDeliveryWitness ==
  \E c, d, e \in Conns :
    /\ status[c] = "connected" /\ HasBroadcast(c)
    /\ status[d] = "disconnected" /\ ~HasBroadcast(d)
    /\ status[e] = "connected" /\ ~HasBroadcast(e)
    /\ nEmits = 1

\* the table of the ingestion routes: the event kind of each route and its
\* required fields, which are also the fields of its event
EventKind(route) ==
  CASE route = "/broadcast/order-created" -> "order_created"
    [] route = "/broadcast/order-updated" -> "order_updated"
    [] route = "/broadcast/order-deleted" -> "order_deleted"
    [] route = "/broadcast/order-status-changed" -> "order_status_changed"
    [] route = "/broadcast/order-image-uploaded" -> "order_image_uploaded"
    [] route = "/broadcast/order-image-deleted" -> "order_image_deleted"
    [] route = "/broadcast/order-assigned" -> "order_assigned"
    [] route = "/broadcast/comment-created" -> "comment_created"
    [] route = "/broadcast/comment-updated" -> "comment_updated"
    [] route = "/broadcast/comment-deleted" -> "comment_deleted"

RequiredFields(route) ==
  CASE route = "/broadcast/order-created" -> {"order"}
    [] route = "/broadcast/order-updated" -> {"order"}
    [] route = "/broadcast/order-deleted" -> {"order_id"}
    [] route = "/broadcast/order-status-changed" -> {"order_id", "old_status", "new_status", "order"}
    [] route = "/broadcast/order-image-uploaded" -> {"order_id", "image", "order"}
    [] route = "/broadcast/order-image-deleted" -> {"order_id", "image_id", "order"}
    [] route = "/broadcast/order-assigned" -> {"order_id", "assigned_users", "order"}
    [] route = "/broadcast/comment-created" -> {"order_id", "comment"}
    [] route = "/broadcast/comment-updated" -> {"order_id", "comment"}
    [] route = "/broadcast/comment-deleted" -> {"order_id", "comment_id"}

\* C4: a request whose body lacks a required field of its route is answered
\* with 400 and an error field; no broadcast is issued, and the connection
\* count and the room membership do not change.
MissingFieldRejected ==
  [][ (lastOp'.op = "post"
       /\ \E f \in RequiredFields(lastOp'.route) : f \notin DOMAIN lastOp'.body)
      => /\ res'.status = 400
         /\ "error" \in DOMAIN res'.body
         /\ nEmits' = nEmits
         /\ outbox' = outbox
         /\ connectedClients' = connectedClients
         /\ rooms' = rooms
         /\ status' = status
    ]_vars

MissingFieldRejectedWitness ==
  /\ lastOp.op = "post"
  /\ lastOp.route = "/broadcast/order-status-changed"
  /\ DOMAIN lastOp.body = {"order_id", "old_status", "new_status", "note"}
  /\ \A f \in DOMAIN lastOp.body : Truthy(lastOp.body[f])
  /\ res.status = 400
  /\ Live # {}
  /\ nEmits = 0

\* C5: a request whose body holds every required field of its route, whatever
\* the values (0, empty string, false and null included), is answered with 200
\* and triggers exactly one broadcast.
PresentFieldsAccepted ==
  [][ (lastOp'.op = "post" /\ RequiredFields(lastOp'.route) \subseteq DOMAIN lastOp'.body)
      => /\ res'.status = 200
         /\ nEmits' = nEmits + 1
    ]_vars

\* C6: the event a route broadcasts has the name and the type tag of the
\* route's kind and carries exactly the route's fields with the values of the
\* request body, plus type; no other key of the body is forwarded.
ExpectedEvent(route, body) ==
  [event |-> EventKind(route),
   data |-> [f \in RequiredFields(route) \cup {"type"} |->
               IF f = "type" THEN EventKind(route) ELSE body[f]]]

EventShapeInv ==
  (lastOp.op = "post" /\ res.status = 200) =>
    \A c \in Live : outbox[c][Len(outbox[c])] = ExpectedEvent(lastOp.route, lastOp.body)

EventShapeWitness ==
  /\ lastOp.op = "post"
  /\ res.status = 200
  /\ lastOp.route = "/broadcast/order-status-changed"
  /\ "note" \in DOMAIN lastOp.body
  /\ lastOp.body["old_status"] # lastOp.body["new_status"]
  /\ Live # {}

\* C7: every ping of a connected client is answered by exactly one pong, sent
\* to that connection only, which carries the client's timestamp whenever the
\* client supplied one and the server's time only when it supplied none.
PongEchoesTimestamp ==
  [][ lastOp'.op = "ping" =>
        outbox' = [outbox EXCEPT ![lastOp'.c] =
                     Append(@, [event |-> "pong",
                                data |-> [timestamp |->
                                            IF "timestamp" \in DOMAIN lastOp'.data
                                              THEN lastOp'.data.timestamp
                                              ELSE lastOp'.now]])]
    ]_vars

\* C8: the client count of a response (connectedClients of GET /health and
\* GET /, clients of a 200 ingestion response) is the number of connections
\* live when the response is made.
ReportedCountInv ==
  /\ lastOp.op = "get" => res.body.connectedClients = Cardinality(Live)
  /\ (lastOp.op = "post" /\ res.status = 200) => res.body.clients = Cardinality(Live)

ReportedCountWitness ==
  /\ lastOp.op = "get"
  /\ lastOp.route = "/health"
  /\ Cardinality({c \in Conns : status[c] # "connecting"}) = 3
  /\ Cardinality({c \in Conns : status[c] = "disconnected"}) = 1
  /\ res.body.connectedClients = 2

\* C9: ingestion is not deduplicated: a request equal to the one accepted just
\* before is broadcast again, so that a connected client receives the event a
\* second time, and every accepted request has produced one broadcast.
NoDeduplication ==
  [][ /\ (lastOp' = lastOp /\ lastOp.op = "post" /\ nAccepted' = nAccepted + 1) =>
           /\ nEmits' = nEmits + 1
           /\ \A c \in Live : outbox'[c] = Append(outbox[c], outbox[c][Len(outbox[c])])
      /\ nAccepted' # nAccepted => (nEmits' = nEmits + 1 /\ nEmits' = nAccepted')
    ]_vars

NoDeduplicationWitness ==
  /\ nAccepted = 2
  /\ nEmits = 2
  /\ lastOp.op = "post"
  /\ \E c \in Live :
       /\ Len(outbox[c]) = 3
       /\ IsBroadcastMsg(outbox[c][2])
       /\ outbox[c][2] = outbox[c][3]

Established(c) ==
  [event |-> "connection_established",
   data |-> [message |-> "Connected to order updates", clientId |-> c]]

Pending(c) == delivered[c] < Len(outbox[c])

DeliveryMissSilent ==
  /\ [][ /\ lastOp'.op = "disconnect" =>
              /\ res' = res
              /\ outbox' = outbox
              /\ delivered' = delivered
              /\ \A d \in Conns \ {lastOp'.c} : status'[d] = status[d]
         /\ \A c \in Conns : status[c] = "disconnected" => delivered'[c] = delivered[c]
         /\ nAccepted' # nAccepted => res'.status = 200
       ]_vars
  /\ \A d \in DeliveryConns :
       (status[d] = "connected" /\ Pending(d))
         ~> (status[d] = "disconnected" \/ ~Pending(d))

DeliveryMissSilentWitness ==
  \E c, d \in Conns :
    /\ status[c] = "disconnected"
    /\ Pending(c)
    /\ IsBroadcastMsg(outbox[c][Len(outbox[c])])
    /\ status[d] = "connected"
    /\ ~Pending(d)
    /\ outbox[d][Len(outbox[d])] = outbox[c][Len(outbox[c])]
    /\ res.status = 200

\* C14: a connection goes from connecting to connected to disconnected and
\* stays there: once disconnected it is in no room, only a fresh connection
\* raises the count, and nothing is emitted to it any more.
ConnectionLifecycle ==
  [][ /\ \A c \in Conns :
           /\ status[c] = "connecting" => status'[c] \in {"connecting", "connected"}
           /\ status[c] = "connected" => status'[c] \in {"connected", "disconnected"}
           /\ status[c] = "disconnected" =>
                /\ status'[c] = "disconnected"
                /\ \A r \in RoomNames : c \notin rooms[r] /\ c \notin rooms'[r]
                /\ outbox'[c] = outbox[c]
      /\ connectedClients' > connectedClients =>
           \E d \in Conns : status[d] = "connecting" /\ status'[d] = "connected"
    ]_vars

ConnectionLifecycleWitness ==
  /\ lastOp.op = "post"
  /\ res.status = 200
  /\ \E c, d \in Conns :
       /\ status[c] = "disconnected"
       /\ ~IsBroadcastMsg(outbox[c][Len(outbox[c])])
       /\ status[d] = "connected"
       /\ IsBroadcastMsg(outbox[d][Len(outbox[d])])

\* C15: a transport error on a connection is only logged: the connection
\* count, the room membership, the state of every connection and what was
\* emitted to it stay as they are.
ErrorOnlyLogged ==
  [][ lastOp'.op = "error" =>
        /\ connectedClients' = connectedClients
        /\ rooms' = rooms
        /\ status' = status
        /\ outbox' = outbox
        /\ res' = res
    ]_vars

ErrorOnlyLoggedWitness ==
  /\ lastOp.op = "error"
  /\ status[lastOp.c] = "connected"
  /\ lastOp.c \in rooms["order_updates"]
  /\ \E d \in Conns \ {lastOp.c} : status[d] = "connected"
  /\ connectedClients = 2

\* C16: broadcasts issued one after the other reach every connection that is
\* a member for them in the order of the calls: the broadcast events emitted
\* to a connection are, in order, a segment of the sequence of the calls.
BroadcastsOf(c) == SelectSeq(outbox[c], IsBroadcastMsg)

IssueOrderInv ==
  \A c \in Conns :
    \E i \in 0..Len(emitLog) :
      /\ i + Len(BroadcastsOf(c)) <= Len(emitLog)
      /\ BroadcastsOf(c) = SubSeq(emitLog, i + 1, i + Len(BroadcastsOf(c)))

IssueOrderWitness ==
  /\ Len(emitLog) = 2
  /\ emitLog[1].event = "order_updated"
  /\ emitLog[2].event = "order_created"
  /\ \E c, d \in Conns :
       /\ BroadcastsOf(c) = emitLog
       /\ BroadcastsOf(d) = <<emitLog[2]>>

\* C17: only connect and disconnect events change the connection count and
\* the room membership; pings, ingestion requests (accepted or rejected) and
\* status requests leave both as they are.
OnlyLifecycleChangesRegistry ==
  [][ /\ lastOp'.op \in {"ping", "post", "get"} =>
           (connectedClients' = connectedClients /\ rooms' = rooms)
      /\ (connectedClients' # connectedClients \/ rooms' # rooms) =>
           lastOp'.op \in {"connection", "disconnect"}
    ]_vars

OnlyLifecycleChangesRegistryWitness ==
  /\ lastOp.op = "get"
  /\ nPings = 1
  /\ nAccepted = 1
  /\ nEmits = 1
  /\ connectedClients = 1
  /\ rooms["order_updates"] = Live
  /\ \E d \in Conns : status[d] = "disconnected"

\* C18: the connect handler counts the client, joins it to the room and sends
\* connection_established in one step: the counted clients are always exactly
\* the room's members, so no status or ingestion response reports a client
\* that is not a member, and connection_established comes before every
\* broadcast event emitted to a connection.
ConnectAtomicInv ==
  /\ connectedClients = Cardinality(rooms["order_updates"])
  /\ lastOp.op = "get" => res.body.connectedClients = Cardinality(rooms["order_updates"])
  /\ (lastOp.op = "post" /\ res.status = 200) =>
       res.body.clients =
         Cardinality({c \in Live : outbox[c][Len(outbox[c])] = emitLog[Len(emitLog)]})
  /\ \A c \in rooms["order_updates"] : outbox[c] # <<>>
  /\ \A c \in Conns : \A i \in 1..Len(outbox[c]) :
       IsBroadcastMsg(outbox[c][i]) =>
         (i > 1 /\ outbox[c][1].event = "connection_established")

ConnectAtomicWitness ==
  /\ lastOp.op = "post"
  /\ res.status = 200
  /\ res.body.clients = 2
  /\ \E c \in Conns :
       /\ Len(outbox[c]) = 2
       /\ outbox[c][1].event = "connection_established"
       /\ IsBroadcastMsg(outbox[c][2])
  /\ \E d \in Conns : status[d] = "disconnected"

====
